---- MODULE Spec2Model ----
(***************************************************************************)
(* A model of mealie-backup.py: the backup pipeline run by the script's    *)
(* entry point (token check, health check, delete existing backups, create *)
(* a new one, fetch its download token, download it, upload it to WebDAV)  *)
(* and the pure helper build_url.                                          *)
(*                                                                         *)
(* Every network call is one step.  Its outcome is chosen by the           *)
(* environment: the call succeeds, it fails before the server acted, or it *)
(* fails after the server acted (the response is lost).  The Mealie server *)
(* is modelled by the list of backup descriptors it reports, most recent   *)
(* first; the Nextcloud server by the set of files it stores.              *)
(***************************************************************************)
EXTENDS Naturals, Sequences, FiniteSets

VARIABLES
    auth_token,      \* mealie.auth_token: the secret's value, or None
    pc,              \* position of the script in the entry point
    server,          \* Mealie: the descriptors of the stored backups, most recent first
    imports,         \* delete_local_backups: the list the for loop walks
    idx,             \* delete_local_backups: position of the for loop in imports
    relisted,        \* create_backup: the list fetched after the POST
    created_backup,  \* entry point: create_backup's return value
    backupToken,     \* entry point: get_backup_token's return value
    result,          \* entry point: get_backup_file's return value
    upload_ok,       \* upload_file_webdav's return value (the entry point drops it)
    scratch,         \* files under /tmp: <<filename, backup whose data it holds>>
    webdav,          \* files stored by Nextcloud: <<filename, backup whose data it holds>>
    requests,        \* every HTTP request issued so far, in order
    segs,            \* the URL segments before separators are added to them
    parts,           \* build_url: its arguments
    url              \* build_url: its return value

vars == <<auth_token, pc, server, imports, idx, relisted, created_backup,
          backupToken, result, upload_ok, scratch, webdav, requests, segs, parts,
          url>>

(***************************************************************************)
(* Bounds of the model.                                                    *)
(***************************************************************************)
MaxBackups == 3     \* descriptors the server reports before the run
MaxLen == 3         \* characters of a URL segment without its added slashes
MaxSlash == 2       \* slashes added in front of or behind a URL segment

(***************************************************************************)
(* Values.                                                                 *)
(***************************************************************************)
None == "<None>"                               \* Python's None
OldNames == {"a.zip", "b.zip", "c.zip"}        \* names of backups made by earlier runs
NewName == "new.zip"                           \* name the server gives this run's backup
FallbackName == "mealie_<timestamp>.zip"       \* name synthesized by get_backup_file

\* Python truthiness of a string-or-None value.
Truthy(v) == v # None /\ v # ""

\* The download token the server hands out for a backup, and its inverse.
FileToken(name) ==
    CASE name = "a.zip" -> "tok-a"
      [] name = "b.zip" -> "tok-b"
      [] name = "c.zip" -> "tok-c"
      [] OTHER -> "tok-new"

BackupOfToken(token) ==
    CASE token = "tok-a" -> "a.zip"
      [] token = "tok-b" -> "b.zip"
      [] token = "tok-c" -> "c.zip"
      [] OTHER -> NewName

\* A backup descriptor as the list endpoint reports it.  A descriptor that
\* lacks the name key is read by backup.get('name') as None.
Descriptor(n) == [name |-> n]

Req(kind, arg, ok) == [kind |-> kind, arg |-> arg, ok |-> ok]

Kinds(k) == {i \in 1..Len(requests) : requests[i].kind = k}

\* The lists the server can report before the run: at most MaxBackups
\* descriptors, the named ones with distinct names.
DistinctNames(s) ==
    \A i, j \in 1..Len(s) : (i # j /\ s[i].name \in OldNames) => s[i].name # s[j].name

ServerLists ==
    {s \in UNION {[1..n -> {Descriptor(n2) : n2 \in OldNames \cup {"", None}}] :
                    n \in 0..MaxBackups} : DistinctNames(s)}

\* The server's list without the backup called name.
RECURSIVE Without(_, _)
Without(s, name) ==
    IF s = <<>> THEN <<>>
    ELSE IF Head(s).name = name THEN Without(Tail(s), name)
    ELSE <<Head(s)>> \o Without(Tail(s), name)


(***************************************************************************)
(* The Mealie client.                                                      *)
(***************************************************************************)
\* Python's {}: a mapping with no key.
EmptyDict == [k \in {} |-> <<>>]

\* get_local_backups: the decoded body of the list response, {} when the
\* request raised a RequestException.
get_local_backups(ok) == IF ok THEN [imports |-> server] ELSE EmptyDict

\* backups.get('imports', [])
GetImports(backups) ==
    IF "imports" \in DOMAIN backups THEN backups.imports ELSE <<>>

\* A create_backup that returns the last listed name instead of the first.
new_backup_name_last(imps) == IF imps # <<>> THEN imps[Len(imps)].name ELSE None

\* create_backup: imports[0].get('name') if imports else None
new_backup_name(imps) == IF imps # <<>> THEN imps[1].name ELSE None

\* The entry point's token check.  Building Mealie() and Nextcloud() reads
\* the secrets directory and the environment, and sends nothing.
token_check ==
    /\ pc = "main"
    /\ pc' = IF Truthy(auth_token) THEN "health" ELSE "exit"
    /\ UNCHANGED <<auth_token, server, imports, idx, relisted, created_backup,
                   backupToken, result, upload_ok, scratch, webdav, requests,
                   segs, parts, url>>

\* An entry point that goes on whatever health_check returns.
health_check_ignored ==
    /\ pc = "health"
    /\ \E ok \in BOOLEAN :
         requests' = Append(requests, Req("GET_HEALTH", "", ok))
    /\ pc' = "list"
    /\ UNCHANGED <<auth_token, server, imports, idx, relisted, created_backup,
                   backupToken, result, upload_ok, scratch, webdav, segs, parts, url>>

\* health_check, and the entry point's branch on its result.
health_check ==
    /\ pc = "health"
    /\ \E ok \in BOOLEAN :
         /\ requests' = Append(requests, Req("GET_HEALTH", "", ok))
         /\ pc' = IF ok THEN "list" ELSE "exit"
    /\ UNCHANGED <<auth_token, server, imports, idx, relisted, created_backup,
                   backupToken, result, upload_ok, scratch, webdav, segs, parts, url>>

\* A delete_local_backups that runs after a new backup was made: the POST
\* comes before the list request, and the loop then walks the new list.
delete_local_backups_list_after_create ==
    /\ pc = "list"
    /\ requests' = requests \o <<Req("POST_BACKUP", "", TRUE), Req("GET_BACKUPS", "", TRUE)>>
    /\ server' = <<Descriptor(NewName)>> \o server
    /\ imports' = server'
    /\ idx' = 1
    /\ pc' = "delete"
    /\ UNCHANGED <<auth_token, relisted, created_backup, backupToken,
                   result, upload_ok, scratch, webdav, segs, parts, url>>

\* delete_local_backups up to its for loop: the list request, then
\* len(backups['imports']), which raises KeyError on {} and ends the script.
delete_local_backups_list ==
    /\ pc = "list"
    /\ \E ok \in BOOLEAN :
         LET backups == get_local_backups(ok) IN
         /\ requests' = Append(requests, Req("GET_BACKUPS", "", ok))
         /\ IF "imports" \notin DOMAIN backups
            THEN /\ pc' = "crash"
                 /\ UNCHANGED <<imports, idx>>
            ELSE /\ imports' = GetImports(backups)
                 /\ idx' = 1
                 /\ pc' = IF Len(imports') = 0 THEN "create" ELSE "delete"
    /\ UNCHANGED <<auth_token, server, relisted, created_backup, backupToken,
                   result, upload_ok, scratch, webdav, segs, parts, url>>

\* A for loop that a failed deletion ends: delete_backup's exception is not
\* caught per item.
delete_local_backups_loop_abort ==
    /\ pc = "delete"
    /\ idx <= Len(imports)
    /\ LET backup_name == imports[idx].name IN
         IF Truthy(backup_name)
         THEN \E outcome \in {"ok", "fail", "lost"} :
                /\ requests' = Append(requests, Req("DELETE", backup_name, outcome = "ok"))
                /\ server' = IF outcome = "fail" THEN server
                             ELSE Without(server, backup_name)
                /\ idx' = idx + 1
                /\ pc' = IF outcome # "ok" \/ idx' > Len(imports) THEN "create" ELSE "delete"
         ELSE /\ UNCHANGED <<requests, server>>
              /\ idx' = idx + 1
              /\ pc' = IF idx' > Len(imports) THEN "create" ELSE "delete"
    /\ UNCHANGED <<auth_token, imports, relisted, created_backup, backupToken,
                   result, upload_ok, scratch, webdav, segs, parts, url>>

\* One pass of delete_local_backups' for loop: delete_backup for a descriptor
\* with a name, nothing for one without.  delete_backup catches the request's
\* exception, so the loop goes on whatever the outcome.
delete_local_backups_loop ==
    /\ pc = "delete"
    /\ idx <= Len(imports)
    /\ LET backup_name == imports[idx].name IN
         IF Truthy(backup_name)
         THEN \E outcome \in {"ok", "fail", "lost"} :
                /\ requests' = Append(requests, Req("DELETE", backup_name, outcome = "ok"))
                /\ server' = IF outcome = "fail" THEN server
                             ELSE Without(server, backup_name)
         ELSE UNCHANGED <<requests, server>>
    /\ idx' = idx + 1
    /\ pc' = IF idx' > Len(imports) THEN "create" ELSE "delete"
    /\ UNCHANGED <<auth_token, imports, relisted, created_backup, backupToken,
                   result, upload_ok, scratch, webdav, segs, parts, url>>

\* create_backup's POST.  A failed POST makes create_backup return None, and
\* the entry point then does nothing more.
create_backup_post ==
    /\ pc = "create"
    /\ \E outcome \in {"ok", "fail", "lost"} :
         /\ requests' = Append(requests, Req("POST_BACKUP", "", outcome = "ok"))
         /\ server' = IF outcome = "fail" THEN server
                      ELSE <<Descriptor(NewName)>> \o server
         /\ IF outcome = "ok"
            THEN pc' = "relist" /\ UNCHANGED created_backup
            ELSE pc' = "exit" /\ created_backup' = None
    /\ UNCHANGED <<auth_token, imports, idx, relisted, backupToken, result,
                   upload_ok, scratch, webdav, segs, parts, url>>

\* create_backup after a successful POST: list again and return the first
\* descriptor's name; the entry point goes on only with a truthy name.
create_backup_relist ==
    /\ pc = "relist"
    /\ \E ok \in BOOLEAN :
         /\ requests' = Append(requests, Req("GET_BACKUPS", "", ok))
         /\ relisted' = GetImports(get_local_backups(ok))
         /\ created_backup' = new_backup_name(relisted')
         /\ pc' = IF Truthy(created_backup') THEN "token" ELSE "exit"
    /\ UNCHANGED <<auth_token, server, imports, idx, backupToken, result,
                   upload_ok, scratch, webdav, segs, parts, url>>

\* A get_backup_token that is given the first name of the list fetched
\* before the deletions instead of create_backup's result.
get_backup_token_stale ==
    /\ pc = "token"
    /\ \E outcome \in {"ok", "nofield", "fail"} :
         LET name == new_backup_name(imports) IN
         /\ requests' = Append(requests, Req("GET_TOKEN", name, outcome # "fail"))
         /\ backupToken' = IF outcome = "ok" THEN FileToken(name) ELSE None
    /\ pc' = "download"
    /\ UNCHANGED <<auth_token, server, imports, idx, relisted, created_backup,
                   result, upload_ok, scratch, webdav, segs, parts, url>>

\* get_backup_token: the token, None when the body has no fileToken or the
\* request failed.  The entry point calls get_backup_file with either.
get_backup_token ==
    /\ pc = "token"
    /\ \E outcome \in {"ok", "nofield", "fail"} :
         /\ requests' = Append(requests, Req("GET_TOKEN", created_backup, outcome # "fail"))
         /\ backupToken' = IF outcome = "ok" THEN FileToken(created_backup) ELSE None
    /\ pc' = "download"
    /\ UNCHANGED <<auth_token, server, imports, idx, relisted, created_backup,
                   result, upload_ok, scratch, webdav, segs, parts, url>>

\* get_backup_file's return value for a failed download.
NoResult == <<>>

\* get_backup_file.  mealie.download_url + None raises TypeError, which the
\* function's except clause (requests.RequestException) does not catch.
get_backup_file ==
    /\ pc = "download"
    /\ IF backupToken = None
       THEN /\ pc' = "crash"
            /\ UNCHANGED <<requests, result, scratch>>
       ELSE \E outcome \in {"header", "noheader", "fail"} :
              LET filename == IF outcome = "header" THEN BackupOfToken(backupToken)
                              ELSE FallbackName IN
              /\ requests' = Append(requests, Req("GET_DOWNLOAD", backupToken, outcome # "fail"))
              /\ IF outcome = "fail"
                 THEN /\ result' = NoResult
                      /\ pc' = "exit"
                      /\ UNCHANGED scratch
                 ELSE /\ scratch' = scratch \cup {<<filename, BackupOfToken(backupToken)>>}
                      /\ result' = <<filename, filename>>
                      /\ pc' = "upload"
    /\ UNCHANGED <<auth_token, server, imports, idx, relisted, created_backup,
                   backupToken, upload_ok, webdav, segs, parts, url>>

(***************************************************************************)
(* The remote storage client.                                              *)
(***************************************************************************)
\* The statuses upload_file_webdav takes for a stored file.
UploadSuccess == {200, 201, 204}

\* An upload that is tried a second time after a status outside UploadSuccess.
upload_file_webdav_retry ==
    /\ pc = "upload"
    /\ \E status \in UploadSuccess \cup {403} :
         /\ upload_ok' = (status \in UploadSuccess)
         /\ requests' = Append(requests, Req("PUT", result[1], upload_ok'))
         /\ webdav' = IF upload_ok'
                      THEN webdav \cup {f \in scratch : f[1] = result[2]}
                      ELSE webdav
         /\ pc' = IF ~upload_ok' /\ Kinds("PUT") = {} THEN "upload" ELSE "exit"
    /\ UNCHANGED <<auth_token, server, imports, idx, relisted, created_backup,
                   backupToken, result, scratch, segs, parts, url>>

\* upload_file_webdav: False without a request when the local file is gone,
\* True for a status of UploadSuccess, False for any other status and for
\* any exception.  The script ends after it.
upload_file_webdav ==
    /\ pc = "upload"
    /\ LET filename == result[1]
           local_path == result[2]
           files == {f \in scratch : f[1] = local_path} IN
         IF files = {}
         THEN /\ upload_ok' = FALSE
              /\ UNCHANGED <<requests, webdav>>
         ELSE \/ \E status \in UploadSuccess \cup {403} :
                   /\ upload_ok' = (status \in UploadSuccess)
                   /\ requests' = Append(requests, Req("PUT", filename, upload_ok'))
                   /\ webdav' = IF upload_ok'
                                THEN webdav \cup {<<filename, f[2]>> : f \in files}
                                ELSE webdav
              \/ \E stored \in BOOLEAN :
                   /\ upload_ok' = FALSE
                   /\ requests' = Append(requests, Req("PUT", filename, FALSE))
                   /\ webdav' = IF stored
                                THEN webdav \cup {<<filename, f[2]>> : f \in files}
                                ELSE webdav
    /\ pc' = "exit"
    /\ UNCHANGED <<auth_token, server, imports, idx, relisted, created_backup,
                   backupToken, result, scratch, segs, parts, url>>

\* The process's exit status: 1 when an uncaught exception ended the script,
\* 0 when the entry point ran to its end.
ExitStatus == IF pc = "crash" THEN 1 ELSE 0

Ended == pc \in {"exit", "crash"}

Init ==
    /\ auth_token \in {None, "", "secret"}
    /\ pc = "main"
    /\ server \in ServerLists
    /\ imports = <<>>
    /\ idx = 1
    /\ relisted = <<>>
    /\ created_backup = None
    /\ backupToken = None
    /\ result = NoResult
    /\ upload_ok = FALSE
    /\ scratch = {}
    /\ webdav = {}
    /\ requests = <<>>
    /\ segs = <<>>
    /\ parts = <<>>
    /\ url = <<>>

Next ==
    \/ token_check
    \/ health_check
    \/ delete_local_backups_list
    \/ delete_local_backups_loop
    \/ create_backup_post
    \/ create_backup_relist
    \/ get_backup_token
    \/ get_backup_file
    \/ upload_file_webdav

Spec == Init /\ [][Next]_vars


(***************************************************************************)
(* build_url.  A string is a sequence of characters.                       *)
(***************************************************************************)
Slash == "/"
Chars == {Slash, "a", "b"}
AbsentPart == <<None>>           \* a part that is None

\* str.strip('/'), as its left and right halves.
RECURSIVE lstrip(_)
lstrip(s) == IF s # <<>> /\ Head(s) = Slash THEN lstrip(Tail(s)) ELSE s

RECURSIVE rstrip(_)
rstrip(s) ==
    IF s # <<>> /\ s[Len(s)] = Slash THEN rstrip(SubSeq(s, 1, Len(s) - 1)) ELSE s

\* A strip that removes the trailing slashes only.
strip_trailing(s) == rstrip(s)

strip(s) == rstrip(lstrip(s))

\* '/'.join(ps)
RECURSIVE join(_)
join(ps) ==
    IF ps = <<>> THEN <<>>
    ELSE IF Len(ps) = 1 THEN ps[1]
    ELSE ps[1] \o <<Slash>> \o join(Tail(ps))

\* build_url's loop: the parts that are neither None nor empty, each stripped.
RECURSIVE clean_parts(_)
clean_parts(ps) ==
    IF ps = <<>> THEN <<>>
    ELSE IF Head(ps) # AbsentPart /\ Head(ps) # <<>>
         THEN <<strip(Head(ps))>> \o clean_parts(Tail(ps))
         ELSE clean_parts(Tail(ps))

build_url(ps) == IF ps = <<>> THEN <<>> ELSE join(clean_parts(ps))

\* The strings of at most MaxLen characters, and those among them that
\* neither start nor end with a slash.
Strings == UNION {[1..n -> Chars] : n \in 0..MaxLen}
Segments == {s \in Strings : s = <<>> \/ (s[1] # Slash /\ s[Len(s)] # Slash)}

\* n slashes.
Slashes(n) == [i \in 1..n |-> Slash]

\* build_url(a, b), called with slashes added around both segments.
build_url_padded ==
    /\ pc = "url"
    /\ \E la, ra, lb, rb \in 0..MaxSlash :
         parts' = <<Slashes(la) \o segs[1] \o Slashes(ra),
                    Slashes(lb) \o segs[2] \o Slashes(rb)>>
    /\ url' = build_url(parts')
    /\ pc' = "joined"
    /\ UNCHANGED <<auth_token, server, imports, idx, relisted, created_backup,
                   backupToken, result, upload_ok, scratch, webdav, requests, segs>>

\* build_url called with one segment, slashes added around it, and an empty
\* or absent one, in either order.
build_url_empty ==
    /\ pc = "url"
    /\ \E la, ra \in 0..MaxSlash, e \in {<<>>, AbsentPart}, first \in BOOLEAN :
         LET s == Slashes(la) \o segs[1] \o Slashes(ra) IN
         parts' = IF first THEN <<s, e>> ELSE <<e, s>>
    /\ url' = build_url(parts')
    /\ pc' = "joined_empty"
    /\ UNCHANGED <<auth_token, server, imports, idx, relisted, created_backup,
                   backupToken, result, upload_ok, scratch, webdav, requests, segs>>

InitUrl ==
    /\ auth_token = None
    /\ pc = "url"
    /\ server = <<>>
    /\ imports = <<>>
    /\ idx = 1
    /\ relisted = <<>>
    /\ created_backup = None
    /\ backupToken = None
    /\ result = NoResult
    /\ upload_ok = FALSE
    /\ scratch = {}
    /\ webdav = {}
    /\ requests = <<>>
    /\ segs \in Segments \X Segments
    /\ parts = <<>>
    /\ url = <<>>

NextUrl == build_url_padded \/ build_url_empty

SpecUrl == InitUrl /\ [][NextUrl]_vars


(***************************************************************************)
(* What the claims read off a state.                                       *)
(***************************************************************************)
\* The names carried by the DELETE requests issued so far, in order.
DeletedArgs ==
    LET d == SelectSeq(requests, LAMBDA r : r.kind = "DELETE") IN
    [i \in 1..Len(d) |-> d[i].arg]

\* The names of the descriptors of s that have a non-empty name, in order.
NamesOf(s) ==
    LET d == SelectSeq(s, LAMBDA b : Truthy(b.name)) IN
    [i \in 1..Len(d) |-> d[i].name]

\* The list request of the delete-existing stage was answered.
Listed == Len(requests) >= 2 /\ requests[2].kind = "GET_BACKUPS" /\ requests[2].ok

\* The stage of the pipeline a position belongs to.
StageOf(p) ==
    CASE p = "main" -> 0
      [] p = "health" -> 1
      [] p \in {"list", "delete"} -> 2
      [] p \in {"create", "relist"} -> 3
      [] p = "token" -> 4
      [] p = "download" -> 5
      [] p = "upload" -> 6
      [] OTHER -> 7

\* C1: with the authentication token missing no request is ever issued, and
\* a health check that returned false is the last request of the run.
C1_NoRequestAfterAbort ==
    /\ ~Truthy(auth_token) => requests = <<>>
    /\ \A i \in Kinds("GET_HEALTH") : ~requests[i].ok => Len(requests) = i

C1_Witness ==
    /\ pc = "exit"
    /\ Truthy(auth_token)
    /\ Kinds("GET_HEALTH") = {1}
    /\ ~requests[1].ok

\* C2: when the run has ended, the exit status is zero exactly when the
\* upload returned true (which needs every earlier stage to have succeeded).
C2_ExitReflectsOutcome == Ended => (ExitStatus = 0 <=> upload_ok)

\* C3: a stage that returns nothing ends the run cleanly: after create_backup
\* returned no name, get_backup_token no token or get_backup_file no result,
\* no request of a later stage is issued and no exception ends the script.
C3_CleanAbort ==
    /\ (Kinds("POST_BACKUP") # {} /\ pc # "relist" /\ ~Truthy(created_backup))
         => /\ pc = "exit"
            /\ Kinds("GET_TOKEN") \cup Kinds("GET_DOWNLOAD") \cup Kinds("PUT") = {}
    /\ (Kinds("GET_TOKEN") # {} /\ backupToken = None)
         => /\ pc # "crash"
            /\ Kinds("GET_DOWNLOAD") \cup Kinds("PUT") = {}
    /\ (Kinds("GET_DOWNLOAD") # {} /\ result = NoResult)
         => /\ pc = "exit"
            /\ Kinds("PUT") = {}

\* C4: after a failed list request in the delete-existing stage, no delete
\* request is issued, no exception ends the script, and the run is at the
\* create-new stage or beyond it.
C4_ListFailureIsNoOp ==
    (Len(requests) >= 2 /\ requests[2].kind = "GET_BACKUPS" /\ ~requests[2].ok)
      => /\ Kinds("DELETE") = {}
         /\ pc # "crash"
         /\ StageOf(pc) >= 3

\* C5: once the server has returned a list, the delete requests issued are,
\* in order, exactly one for each descriptor with a non-empty name that the
\* loop has passed, whatever the outcome of each, and the loop passes every
\* descriptor of the list.
C5_OneDeletePerNamed ==
    Listed =>
      /\ DeletedArgs = NamesOf(SubSeq(imports, 1, idx - 1))
      /\ pc # "delete" => idx = Len(imports) + 1

C5_Witness ==
    /\ pc = "create"
    /\ \E i, j \in Kinds("DELETE") : i < j /\ ~requests[i].ok
    /\ \E k \in 1..Len(imports) : ~Truthy(imports[k].name)

\* C6: a failed create request is the last request of the run and leaves
\* create_backup's result None; after a successful create request and a
\* re-list that reports at least one backup, the result is the name of the
\* first descriptor of that list, which is the head of the server's list.
C6_CreateResult ==
    \A i \in Kinds("POST_BACKUP") :
      /\ ~requests[i].ok => (created_backup = None /\ Len(requests) = i)
      /\ (requests[i].ok /\ Len(requests) > i /\ relisted # <<>>)
           => (created_backup = relisted[1].name /\ relisted[1] = server[1])

C6_Witness ==
    /\ Kinds("POST_BACKUP") # {}
    /\ Len(relisted) >= 2
    /\ created_backup = NewName

\* C7: build_url gives the same result whatever slashes are added around its
\* two segments, with one slash between two non-empty segments, and returns
\* the other part unchanged when one part is empty or absent.
C7_JoinAsClaimed ==
    /\ pc = "joined" =>
         /\ url = build_url(segs)
         /\ (segs[1] # <<>> /\ segs[2] # <<>>) => url = segs[1] \o <<Slash>> \o segs[2]
    /\ pc = "joined_empty" =>
         url = IF parts[1] \in {<<>>, AbsentPart} THEN parts[2] ELSE parts[1]

\* C7, amended: for two non-empty segments that neither start nor end with a
\* slash, build_url of the segments with any slashes added around them is the
\* first segment, one slash, the second segment; and build_url of a segment
\* with slashes added around it and an empty or absent part is the segment
\* without the added slashes.
C7_JoinStripsSlashes ==
    /\ (pc = "joined" /\ segs[1] # <<>> /\ segs[2] # <<>>)
         => url = segs[1] \o <<Slash>> \o segs[2]
    /\ pc = "joined_empty" => url = segs[1]

C7_Witness ==
    /\ pc = "joined_empty"
    /\ segs[1] # <<>>
    /\ \E i \in 1..2 : /\ Len(parts[i]) >= Len(segs[1]) + 2
                       /\ Head(parts[i]) = Slash
                       /\ parts[i][Len(parts[i])] = Slash

\* C8: every step moves the run to the same or a later stage, never back, and
\* no request is repeated: at most one health, create, token, download and
\* upload request, at most one list request per listing stage, and at most
\* one delete request per name.
C8_NoRetry ==
    /\ \A k \in {"GET_HEALTH", "POST_BACKUP", "GET_TOKEN", "GET_DOWNLOAD", "PUT"} :
         Cardinality(Kinds(k)) <= 1
    /\ Cardinality(Kinds("GET_BACKUPS")) <= 2
    /\ \A i, j \in Kinds("DELETE") : requests[i].arg = requests[j].arg => i = j

C8_Linear == [][StageOf(pc') >= StageOf(pc)]_vars /\ []C8_NoRetry

C8_Witness ==
    /\ pc = "exit"
    /\ Kinds("PUT") # {}
    /\ Cardinality(Kinds("DELETE")) >= 2

\* C9: every delete request precedes the create request, and a backup whose
\* delete request succeeded is never on the server again, whatever fails
\* later.
C9_DeleteFirstNoCompensation ==
    /\ \A i \in Kinds("DELETE"), j \in Kinds("POST_BACKUP") : i < j
    /\ \A i \in Kinds("DELETE") :
         requests[i].ok => \A k \in 1..Len(server) : server[k].name # requests[i].arg

\* A run that ended after deleting every backup the server had, with no
\* backup left on the server and nothing uploaded.
C9_Witness ==
    /\ pc = "exit"
    /\ Len(imports) >= 2
    /\ DeletedArgs = NamesOf(imports)
    /\ Len(DeletedArgs) = Len(imports)
    /\ \A i \in Kinds("DELETE") : requests[i].ok
    /\ Kinds("POST_BACKUP") # {}
    /\ server = <<>>
    /\ webdav = {}

\* C10: the token request names the backup this run's create request made,
\* and every download and every stored or uploaded file is of that backup.
C10_OwnBackupOnly ==
    /\ \A i \in Kinds("GET_TOKEN") :
         /\ requests[i].arg = NewName
         /\ \E j \in Kinds("POST_BACKUP") : j < i /\ requests[j].ok
    /\ \A i \in Kinds("GET_DOWNLOAD") : BackupOfToken(requests[i].arg) = NewName
    /\ \A f \in scratch \cup webdav : f[2] = NewName

C10_Witness ==
    /\ Kinds("PUT") # {}
    /\ upload_ok
    /\ \E i \in Kinds("DELETE") : ~requests[i].ok
    /\ \E k \in 1..Len(server) : server[k].name \in OldNames

====
